---- MODULE Spec2Model ----
(***************************************************************************)
(* Press-interaction state machine of leptos_aria_interactions::use_press  *)
(* with its collaborators (virtual-event classifier, listener registry).   *)
(*                                                                         *)
(* One use_press instance wired onto one DOM element.  Every DOM event is  *)
(* one action: the element-scoped handler runs first (bubbling), then the  *)
(* document-scoped listeners the instance has registered, in registration  *)
(* order.  Handlers are operators on a record of the instance's signals.   *)
(*                                                                         *)
(* Modelling assumptions:                                                  *)
(*  - a function handed to add_listener stays callable while registered;   *)
(*  - for a document-scoped listener event.current_target() is the         *)
(*    document, modelled as a node with no role, no href, not an input,    *)
(*    not a textarea and not content-editable;                             *)
(*  - all press callbacks are supplied, so every call_event is observable; *)
(*  - focus_without_scrolling, prevent_default and stop_propagation have   *)
(*    no effect on the signals and are left out;                           *)
(*  - use_press never reads the state of text_selection, so its handlers   *)
(*    record the text_selection calls they make (selection_calls), and     *)
(*    text_selection is exercised on its own under every sequence of       *)
(*    calls (SpecSelection); its three contexts are the process-wide       *)
(*    values inject_providers installs;                                    *)
(*  - set_timeout runs a scheduled callback at some later step.            *)
(*  - run_after_transition is exercised on its own (SpecTransition) under  *)
(*    every order of transitionrun, transitionend and transitioncancel     *)
(*    events, calls and animation frames; setup_global_events drops the    *)
(*    Closure of its transitionrun listener on return, so that listener    *)
(*    is taken both as still callable and as gone;                         *)
(*  - the pure functions are called on enumerated inputs, one call in a    *)
(*    run (SpecClassifier).                                                *)
(***************************************************************************)
EXTENDS Integers, Sequences, FiniteSets, TLC

(* ---------------------------- bounds ---------------------------------- *)
\* registrations the listener registry may hold before a handler that would
\* add more is no longer taken
MaxListeners == 4
\* length of the recorded prefix of input events
MaxHist == 4
\* restoration callbacks that may be scheduled and not yet run
MaxTimeouts == 2
\* number of the latest text_selection calls that are remembered
MaxCalls == 2
\* callbacks handed to run_after_transition
MaxCallbacks == 2

(* ---------------------------- values ---------------------------------- *)
None == "None"
\* the element the handlers are wired onto (event.current_target())
TheElement == "element"

PointerIds == {1, 2}
Buttons == {0, 1}

\* PointerType enum
PointerType == {"Unsupported", "Mouse", "Pen", "Touch", "Keyboard", "Virtual"}

\* impl From<&str> for PointerType
PointerTypeFrom(value) ==
  CASE value = "mouse" -> "Mouse"
    [] value = "pen" -> "Pen"
    [] value = "touch" -> "Touch"
    [] value = "keyboard" -> "Keyboard"
    [] value = "virtual" -> "Virtual"
    [] OTHER -> "Unsupported"

\* PressEvent::create: the event type and the pointer type it reports
PressEvent(pointer, event_type) ==
  [event_type |-> event_type, arg |-> pointer]

\* a call of the on_press_change callback
PressChange(value) ==
  [event_type |-> "PressChange", arg |-> IF value THEN "true" ELSE "false"]

(* ------------------------ listener registry --------------------------- *)
\* GlobalListeners::add_listener: attach and record one registration
add_listener(registry, type) == Append(registry, type)

\* GlobalListeners::remove_all_listeners: detach everything, clear
remove_all_listeners(registry) == << >>

CountOf(registry, type) ==
  Cardinality({i \in 1..Len(registry) : registry[i] = type})

(* ---------------------------- geometry -------------------------------- *)
\* bounding client rectangle of the element
TargetRect == [left |-> 0, right |-> 2, top |-> 0, bottom |-> 2]

\* a struct Rect
Rect(top, right, bottom, left) ==
  [top |-> top, right |-> right, bottom |-> bottom, left |-> left]

\* impl GetRects for MouseEvent
get_rects_MouseEvent(event) ==
  << Rect(event.client_y, event.client_x, event.client_y, event.client_x) >>

\* impl GetRects for DragEvent
get_rects_DragEvent(event) ==
  << Rect(event.client_y, event.client_x, event.client_y, event.client_x) >>

\* impl GetRects for TouchEvent: one rectangle for each item of touches()
get_rects_TouchEvent(event) ==
  [index \in 1..Len(event.touches) |->
     LET touch == event.touches[index]
     IN Rect(touch.client_y - touch.radius_y, touch.client_x + touch.radius_x,
             touch.client_y + touch.radius_y, touch.client_x - touch.radius_x)]

\* a PointerEvent taken as the point at its client position
get_rects_client_point(event) ==
  << Rect(event.client_y, event.client_x, event.client_y, event.client_x) >>

\* impl GetRects for PointerEvent
get_rects(event) ==
  << [top    |-> event.client_y - event.height,
      right  |-> event.client_x + event.width,
      bottom |-> event.client_y + event.height,
      left   |-> event.client_x - event.width] >>

\* trait GetRects: the implementation of the event's type
GetRects(event) ==
  CASE event.kind = "MouseEvent" -> get_rects_MouseEvent(event)
    [] event.kind = "DragEvent" -> get_rects_DragEvent(event)
    [] event.kind = "TouchEvent" -> get_rects_TouchEvent(event)
    [] event.kind = "PointerEvent" -> get_rects(event)

are_rectangles_overlapping(dom_rect, rects) ==
  \E i \in 1..Len(rects) :
    /\ ~(dom_rect.left > rects[i].right \/ dom_rect.right < rects[i].left)
    /\ ~(dom_rect.top > rects[i].bottom \/ dom_rect.bottom < rects[i].top)

is_above_target(event) ==
  are_rectangles_overlapping(TargetRect, get_rects(event))

\* is_above_target for an event of any type and a target whose bounding
\* client rectangle is rect
is_above_target_of(point, rect) ==
  are_rectangles_overlapping(rect, GetRects(point))

(* ----------------------- virtual-event classifier --------------------- *)
\* is_virtual_pointer_event that takes any 1x1 event without pressure
is_virtual_pointer_event_any_kind(event) ==
  \/ (event.width = 0 /\ event.height = 0)
  \/ /\ event.width = 1
     /\ event.height = 1
     /\ event.pressure = 0
     /\ event.detail = 0

is_virtual_pointer_event(event) ==
  \/ (event.width = 0 /\ event.height = 0)
  \/ /\ event.width = 1
     /\ event.height = 1
     /\ event.pressure = 0
     /\ event.detail = 0
     /\ event.pointer_type = "mouse"

\* is_virtual_click going by the detail counter alone
is_virtual_click_detail_only(event) ==
  IF event.moz_input_source = 0 /\ event.is_trusted
  THEN TRUE
  ELSE IF event.android /\ event.is_pointer_event
       THEN event.type = "click" /\ event.buttons = 1
       ELSE event.detail = 0

\* event.android: what is_android() answers when the event is classified
is_virtual_click(event) ==
  IF event.moz_input_source = 0 /\ event.is_trusted
  THEN TRUE
  ELSE IF event.android /\ event.is_pointer_event
       THEN event.type = "click" /\ event.buttons = 1
       ELSE event.detail = 0 /\ ~event.is_pointer_event

(* ------------------------ keyboard eligibility ------------------------ *)
NON_TEXT_INPUT_TYPES ==
  {"checkbox", "radio", "range", "color", "file", "image", "button",
   "submit", "reset"}

is_valid_input_key(target, key) ==
  IF target.type = "checkbox" \/ target.type = "radio"
  THEN key = " "
  ELSE target.type \in NON_TEXT_INPUT_TYPES

is_html_anchor_link(target) ==
  \/ target.instance = "HtmlAnchorElement"
  \/ (target.tag_name = "A" /\ target.href)

has_link_role(target) ==
  is_html_anchor_link(target) \/ target.role = "link"

is_valid_keyboard_event(event, current_target) ==
  /\ (event.key = "Enter" \/ event.key = " " \/ event.code = "Space")
  /\ ~ \/ /\ current_target.instance = "HtmlInputElement"
          /\ ~is_valid_input_key(current_target, event.key)
       \/ current_target.instance = "HtmlTextAreaElement"
       \/ current_target.content_editable
  /\ \/ ~is_html_anchor_link(current_target)
     \/ (current_target.role = "button" /\ event.key # "Enter")
  /\ ~(current_target.role = "link" /\ event.key # "Enter")

\* element descriptors: what the eligibility tests read from an element
ElementOf(instance, tag_name, type, role, href, content_editable) ==
  [instance |-> instance, tag_name |-> tag_name, type |-> type,
   role |-> role, href |-> href, content_editable |-> content_editable]

\* the document, as current target of a document-scoped listener
DocumentNode == ElementOf("Document", "", "", None, FALSE, FALSE)

\* the elements use_press is exercised on
Elements ==
  { ElementOf("HtmlElement", "DIV", "", "button", FALSE, FALSE),
    ElementOf("HtmlElement", "DIV", "", "link", FALSE, FALSE),
    ElementOf("HtmlInputElement", "INPUT", "checkbox", None, FALSE, FALSE) }

(* --------------------------- text selection -------------------------- *)
\* enum Selection
Selection == {"Default", "Disabled", "Restoring"}

\* inline values of user-select / -webkit-user-select
StyleValues == {"", "text", "none"}

\* elements handed to text_selection: two HTML elements, an SVG element
\* and an element of another kind
SelElements == {"a", "b", "svg", "math"}

IsHtmlElementNode(el) == el \in {"a", "b"}
IsSvgElementNode(el) == el = "svg"

\* the entry of the element list for the element, as a set
EntriesOf(list, el) == {i \in 1..Len(list) : list[i].el = el}

\* the operations act on the record d of the module's state (sel)

\* disable_text_selection that also writes user-select: none
disable_text_selection_sets_none(d, element) ==
  IF d.ios
  THEN LET snap == IF d.selection = "Default"
                   THEN [d EXCEPT !.user_select = {d.root_style},
                                  !.root_style = "none"]
                   ELSE d
       IN [snap EXCEPT !.selection = "Disabled"]
  ELSE IF element = None
  THEN d
  ELSE IF ~IsHtmlElementNode(element) /\ ~IsHtmlElementNode(element)
  THEN d
  ELSE LET user_select == d.style[element]
           should_append == EntriesOf(d.element_list, element) = {}
           list == [i \in 1..Len(d.element_list) |->
                      IF d.element_list[i].el = element
                      THEN [el |-> element, value |-> user_select]
                      ELSE d.element_list[i]]
       IN [d EXCEPT !.element_list =
                      IF should_append
                      THEN Append(list, [el |-> element, value |-> user_select])
                      ELSE list,
                    !.style[element] = "none",
                    !.style_attribute[element] = TRUE]

disable_text_selection(d, element) ==
  IF d.ios
  THEN LET snap == IF d.selection = "Default"
                   THEN [d EXCEPT !.user_select = {d.root_style},
                                  !.root_style = "none"]
                   ELSE d
       IN [snap EXCEPT !.selection = "Disabled"]
  ELSE IF element = None
  THEN d
  ELSE IF ~IsHtmlElementNode(element) /\ ~IsHtmlElementNode(element)
  THEN d
  ELSE LET user_select == d.style[element]
           should_append == EntriesOf(d.element_list, element) = {}
           list == [i \in 1..Len(d.element_list) |->
                      IF d.element_list[i].el = element
                      THEN [el |-> element, value |-> user_select]
                      ELSE d.element_list[i]]
       IN [d EXCEPT !.element_list =
                      IF should_append
                      THEN Append(list, [el |-> element, value |-> user_select])
                      ELSE list]

\* the callback restore_text_selection hands to set_timeout
restore_callback(d) ==
  IF d.selection # "Default"
  THEN d
  ELSE [d EXCEPT !.root_style =
                   IF @ = "none"
                   THEN (IF d.user_select = {} THEN ""
                         ELSE CHOOSE v \in d.user_select : TRUE)
                   ELSE @,
                 !.selection = "Default",
                 !.user_select = {}]

WithoutElement(list, el) == LET Keep(item) == item.el # el IN SelectSeq(list, Keep)

\* restore_text_selection that leaves the element in the list
restore_text_selection_keeps_entry(d, element) ==
  IF d.ios
  THEN IF d.selection # "Default"
       THEN d
       ELSE [d EXCEPT !.selection = "Restoring", !.timeouts = @ + 1]
  ELSE IF ~IsHtmlElementNode(element) /\ ~IsSvgElementNode(element)
  THEN d
  ELSE IF EntriesOf(d.element_list, element) = {}
  THEN d
  ELSE LET first == CHOOSE i \in EntriesOf(d.element_list, element) :
                      \A j \in EntriesOf(d.element_list, element) : i <= j
           found_selection == d.element_list[first].value
           user_select == IF d.style[element] = "none"
                          THEN found_selection ELSE d.style[element]
       IN [d EXCEPT !.style[element] = user_select,
                    !.style_attribute[element] = user_select # ""]

\* restore_text_selection that empties the whole list
restore_text_selection_clears_list(d, element) ==
  IF d.ios
  THEN IF d.selection # "Default"
       THEN d
       ELSE [d EXCEPT !.selection = "Restoring", !.timeouts = @ + 1]
  ELSE IF ~IsHtmlElementNode(element) /\ ~IsSvgElementNode(element)
  THEN d
  ELSE IF EntriesOf(d.element_list, element) = {}
  THEN d
  ELSE LET first == CHOOSE i \in EntriesOf(d.element_list, element) :
                      \A j \in EntriesOf(d.element_list, element) : i <= j
           found_selection == d.element_list[first].value
           user_select == IF d.style[element] = "none"
                          THEN found_selection ELSE d.style[element]
       IN [d EXCEPT !.style[element] = user_select,
                    !.style_attribute[element] = user_select # "",
                    !.element_list = << >>]

restore_text_selection(d, element) ==
  IF d.ios
  THEN IF d.selection # "Default"
       THEN d
       ELSE [d EXCEPT !.selection = "Restoring", !.timeouts = @ + 1]
  ELSE IF ~IsHtmlElementNode(element) /\ ~IsSvgElementNode(element)
  THEN d
  ELSE IF EntriesOf(d.element_list, element) = {}
  THEN d
  ELSE LET first == CHOOSE i \in EntriesOf(d.element_list, element) :
                      \A j \in EntriesOf(d.element_list, element) : i <= j
           found_selection == d.element_list[first].value
           user_select == IF d.style[element] = "none"
                          THEN found_selection ELSE d.style[element]
       IN [d EXCEPT !.style[element] = user_select,
                    !.style_attribute[element] = user_select # "",
                    !.element_list = WithoutElement(@, element)]

(* ------------------------ run_after_transition ------------------------ *)
\* elements that transition and the CSS properties they transition
TransElements == {"e1", "e2"}
Properties == {"opacity", "transform"}

\* the callbacks handed to run_after_transition
CallbackIds == 1..MaxCallbacks

\* Map<K, V>: a function on the keys present
MapSet(map, key, value) ==
  [k \in DOMAIN map \cup {key} |-> IF k = key THEN value ELSE map[k]]
MapDelete(map, key) == [k \in DOMAIN map \ {key} |-> map[k]]
MapIsEmpty(map) == DOMAIN map = {}

\* each callback of the list is called once more
CallEach(invoked, callbacks) ==
  [c \in DOMAIN invoked |->
     invoked[c] + Cardinality({i \in 1..Len(callbacks) : callbacks[i] = c})]

\* the operations act on the record t of the module's state (transitions):
\* elements is the map of ElementTransitionsContext, callbacks the list of
\* TransitionCallbacksContext

\* the listener of "transitionend" on the body and of "transitioncancel"
\* on each tracked element
on_transition_end(t, el, property_name) ==
  IF el \notin DOMAIN t.elements
  THEN t
  ELSE LET properties == t.elements[el] \ {property_name}
           js_map == IF properties = {}
                     THEN MapDelete(t.elements, el)
                     ELSE MapSet(t.elements, el, properties)
           listening == IF properties = {}
                        THEN t.cancel_listeners \ {el}
                        ELSE t.cancel_listeners
       IN IF MapIsEmpty(js_map)
          THEN [t EXCEPT !.elements = js_map,
                         !.cancel_listeners = listening,
                         !.invoked = CallEach(@, t.callbacks),
                         !.callbacks = << >>]
          ELSE [t EXCEPT !.elements = js_map,
                         !.cancel_listeners = listening]

\* the listener of "transitionrun" on the body
on_transition_start(t, el, property_name) ==
  IF el \in DOMAIN t.elements
  THEN [t EXCEPT !.elements[el] = @ \cup {property_name}]
  ELSE [t EXCEPT !.elements = MapSet(@, el, {property_name}),
                 !.cancel_listeners = @ \cup {el}]

\* the closure cb of run_after_transition, run on the animation frame:
\* callbacks is the copy of the list that get() returns, and the code
\* pushes onto the copy without handing it back with set()
cb(t, callback) ==
  IF MapIsEmpty(t.elements)
  THEN [t EXCEPT !.invoked[callback] = @ + 1]
  ELSE LET callbacks == Append(t.callbacks, callback)
       IN t

\* run_after_transition: request_animation_frame(cb)
run_after_transition(t, callback) ==
  [t EXCEPT !.frames = @ \cup {callback}]

(* --------------------------- input events ----------------------------- *)
\* width, height, pressure, detail, pointerType of a pointer event
PointerShapes ==
  { [width |-> 0, height |-> 0, pressure |-> 0, detail |-> 0, pointer_type |-> "mouse"],
    [width |-> 1, height |-> 1, pressure |-> 0, detail |-> 0, pointer_type |-> "mouse"],
    [width |-> 1, height |-> 1, pressure |-> 1, detail |-> 0, pointer_type |-> "mouse"],
    [width |-> 1, height |-> 1, pressure |-> 1, detail |-> 0, pointer_type |-> "touch"] }

\* inside: the event's target lies in the element's subtree
PointerEventOf(p, b, i, x, sh) ==
  [pointer_id |-> p, button |-> b, inside |-> i, client_x |-> x, client_y |-> 1,
   width |-> sh.width, height |-> sh.height, pressure |-> sh.pressure,
   detail |-> sh.detail, pointer_type |-> sh.pointer_type]

MouseShape ==
  [width |-> 1, height |-> 1, pressure |-> 1, detail |-> 0, pointer_type |-> "mouse"]

\* pointerdown events on the element's rectangle: every pointer, button
\* and target with a mouse, and every other shape for one pointer
PointerDownEvents ==
  { PointerEventOf(p, b, i, 1, MouseShape) :
    p \in PointerIds, b \in Buttons, i \in BOOLEAN }
  \cup { PointerEventOf(1, b, TRUE, 1, sh) : b \in Buttons, sh \in PointerShapes }

\* pointermove and pointerup events: over the rectangle (x = 1) or off it
PointerMoveEvents ==
  { PointerEventOf(p, 0, x = 1, x, MouseShape) :
    p \in PointerIds, x \in {1, 5} }

PointerUpEvents ==
  { PointerEventOf(p, b, i, x, MouseShape) :
    p \in PointerIds, b \in Buttons, i \in BOOLEAN, x \in {1, 5} }

PointerCancelEvents ==
  { PointerEventOf(1, 0, TRUE, 1, MouseShape) }

Keys == {"Enter", " ", "a"}

KeyboardEvents ==
  { [key |-> k, code |-> IF k = " " THEN "Space" ELSE k, repeat |-> r, inside |-> i] :
    k \in Keys, r \in BOOLEAN, i \in BOOLEAN }

MouseShapeOf(moz_input_source, is_trusted, is_pointer_event, buttons, detail, is_android) ==
  [moz_input_source |-> moz_input_source, is_trusted |-> is_trusted,
   is_pointer_event |-> is_pointer_event, type |-> "click", buttons |-> buttons,
   detail |-> detail, android |-> is_android]

MouseShapes ==
  { MouseShapeOf(1, TRUE, FALSE, 0, 1, FALSE),   \* ordinary mouse click
    MouseShapeOf(1, FALSE, FALSE, 0, 0, FALSE),  \* element.click(), screen reader
    MouseShapeOf(0, TRUE, FALSE, 0, 1, FALSE),   \* JAWS/NVDA with Firefox
    MouseShapeOf(1, TRUE, TRUE, 1, 0, FALSE),    \* click delivered as a PointerEvent
    MouseShapeOf(1, TRUE, TRUE, 1, 1, TRUE),     \* Android TalkBack
    MouseShapeOf(1, TRUE, TRUE, 0, 0, TRUE) }    \* Android, no button held

MouseEventOf(b, i, sh) ==
  [button |-> b, inside |-> i, moz_input_source |-> sh.moz_input_source,
   is_trusted |-> sh.is_trusted, is_pointer_event |-> sh.is_pointer_event,
   type |-> sh.type, buttons |-> sh.buttons, detail |-> sh.detail,
   android |-> sh.android]

\* clicks: every shape on the element with the primary button, and an
\* ordinary and a synthesized click for the other button and outside
MouseEvents ==
  { MouseEventOf(0, TRUE, sh) : sh \in MouseShapes }
  \cup { MouseEventOf(b, i, sh) :
         b \in Buttons, i \in BOOLEAN,
         sh \in { MouseShapeOf(1, TRUE, FALSE, 0, 1, FALSE),
                  MouseShapeOf(1, FALSE, FALSE, 0, 0, FALSE) } }

\* the click HtmlElement::click() dispatches on the element
SyntheticClick ==
  [button |-> 0, inside |-> TRUE, moz_input_source |-> 1, is_trusted |-> FALSE,
   is_pointer_event |-> FALSE, type |-> "click", buttons |-> 0, detail |-> 0,
   android |-> FALSE]

(* ------------------------------ state --------------------------------- *)
VARIABLES
  is_pressed,                     \* use_press: is_pressed signal
  did_fire_press_start,
  ignore_click_after_press,
  ignore_emulated_mouse_events,
  active_pointer_id,              \* Option<i32>: {} is None, {id} is Some(id)
  target,                         \* None or TheElement
  is_over_target,
  pointer_type,
  listeners,                      \* GlobalListeners: event types, in insertion order
  is_disabled,                    \* props.is_disabled (a signal)
  should_cancel_on_pointer_exit,  \* props
  allow_text_selection_on_press,  \* props
  element,                        \* descriptor of the element behind _ref
  emitted,                        \* callbacks called by the last event, in order
  selection_calls,                \* text_selection calls made by the last event
  hist,                           \* recorded prefix of the input events
  glog,                           \* callbacks called during the recorded prefix
  last,                           \* the last event and the case it arrived in
  sel,                            \* text_selection: a record of
                                  \*   ios: what is_ios() answers
                                  \*   selection: SelectionContext
                                  \*   user_select: UserSelectContext, {} is None,
                                  \*     {v} is Some(v)
                                  \*   root_style: -webkit-user-select of the
                                  \*     document element
                                  \*   element_list: ElementListContext, a list of
                                  \*     (element, value) pairs
                                  \*   style: inline user-select of each element
                                  \*   timeouts: scheduled restoration callbacks
                                  \*     not yet run
                                  \*   recent_calls: the latest text_selection calls
  probe,                          \* a classifier call: its input and its answer
  transitions                     \* run_after_transition: contexts, listeners, callbacks

\* the signals, props and outputs of the use_press instance
press_vars ==
  << is_pressed, did_fire_press_start, ignore_click_after_press,
     ignore_emulated_mouse_events, active_pointer_id, target, is_over_target,
     pointer_type, listeners, is_disabled, should_cancel_on_pointer_exit,
     allow_text_selection_on_press, element, emitted,
     selection_calls, hist, glog, last >>

vars ==
  << is_pressed, did_fire_press_start, ignore_click_after_press,
     ignore_emulated_mouse_events, active_pointer_id, target, is_over_target,
     pointer_type, listeners, is_disabled, should_cancel_on_pointer_exit,
     allow_text_selection_on_press, element, emitted,
     selection_calls, hist, glog, last, sel, probe, transitions >>

\* the instance's signals as one record, with the per-event outputs empty
Cur ==
  [is_pressed |-> is_pressed,
   did_fire_press_start |-> did_fire_press_start,
   ignore_click_after_press |-> ignore_click_after_press,
   ignore_emulated_mouse_events |-> ignore_emulated_mouse_events,
   active_pointer_id |-> active_pointer_id,
   target |-> target,
   is_over_target |-> is_over_target,
   pointer_type |-> pointer_type,
   listeners |-> listeners,
   is_disabled |-> is_disabled,
   should_cancel_on_pointer_exit |-> should_cancel_on_pointer_exit,
   allow_text_selection_on_press |-> allow_text_selection_on_press,
   element |-> element,
   emitted |-> << >>,
   selection_calls |-> << >>]


IsHtmlElement(el) ==
  el.instance \in {"HtmlElement", "HtmlInputElement", "HtmlTextAreaElement",
                   "HtmlAnchorElement", "HtmlButtonElement"}

(* --------------------------- transitions ------------------------------ *)
\* trigger_press_start calling PressStart although the element is disabled
trigger_press_start_ignores_disabled(s, pointer) ==
  IF s.did_fire_press_start
  THEN s
  ELSE [s EXCEPT !.emitted = @ \o << PressEvent(pointer, "PressStart"), PressChange(TRUE) >>,
                 !.did_fire_press_start = TRUE,
                 !.is_pressed = TRUE]

\* trigger_press_start that fires again while a press start is outstanding
trigger_press_start_again(s, pointer) ==
  IF s.is_disabled
  THEN s
  ELSE [s EXCEPT !.emitted = @ \o << PressEvent(pointer, "PressStart"), PressChange(TRUE) >>,
                 !.did_fire_press_start = TRUE,
                 !.is_pressed = TRUE]

trigger_press_start(s, pointer) ==
  IF s.is_disabled \/ s.did_fire_press_start
  THEN s
  ELSE [s EXCEPT !.emitted = @ \o << PressEvent(pointer, "PressStart"), PressChange(TRUE) >>,
                 !.did_fire_press_start = TRUE,
                 !.is_pressed = TRUE]

\* trigger_press_end that emits Press wherever the press ended
trigger_press_end_anywhere(s, pointer, was_pressed) ==
  IF ~s.did_fire_press_start
  THEN s
  ELSE LET ended == [s EXCEPT !.ignore_click_after_press = TRUE,
                              !.did_fire_press_start = FALSE,
                              !.emitted = @ \o << PressEvent(pointer, "PressEnd"),
                                                  PressChange(FALSE) >>,
                              !.is_pressed = FALSE]
       IN IF s.is_disabled
          THEN ended
          ELSE [ended EXCEPT !.emitted = @ \o << PressEvent(pointer, "Press") >>]

trigger_press_end(s, pointer, was_pressed) ==
  IF ~s.did_fire_press_start
  THEN s
  ELSE LET ended == [s EXCEPT !.ignore_click_after_press = TRUE,
                              !.did_fire_press_start = FALSE,
                              !.emitted = @ \o << PressEvent(pointer, "PressEnd"),
                                                  PressChange(FALSE) >>,
                              !.is_pressed = FALSE]
       IN IF ~was_pressed \/ s.is_disabled
          THEN ended
          ELSE [ended EXCEPT !.emitted = @ \o << PressEvent(pointer, "Press") >>]

trigger_press_up(s, pointer) ==
  IF s.is_disabled
  THEN s
  ELSE [s EXCEPT !.emitted = @ \o << PressEvent(pointer, "PressUp") >>]

\* cancel resetting the gesture although no press is in progress
cancel_unguarded(s) ==
  LET ended == IF s.is_over_target
               THEN trigger_press_end(s, s.pointer_type, FALSE)
               ELSE s
      reset == [ended EXCEPT !.is_pressed = FALSE,
                             !.is_over_target = FALSE,
                             !.active_pointer_id = {},
                             !.pointer_type = "Unsupported",
                             !.listeners = remove_all_listeners(@)]
  IN IF ~reset.allow_text_selection_on_press /\ reset.target # None
     THEN [reset EXCEPT !.selection_calls = Append(@, "restore_text_selection")]
     ELSE reset

\* cancel ending the press as a release over the target would
cancel_commits(s) ==
  IF ~s.is_pressed
  THEN s
  ELSE LET ended == IF s.is_over_target
                    THEN trigger_press_end(s, s.pointer_type, TRUE)
                    ELSE s
           reset == [ended EXCEPT !.is_pressed = FALSE,
                                  !.is_over_target = FALSE,
                                  !.active_pointer_id = {},
                                  !.pointer_type = "Unsupported",
                                  !.listeners = remove_all_listeners(@)]
       IN IF ~reset.allow_text_selection_on_press /\ reset.target # None
          THEN [reset EXCEPT !.selection_calls = Append(@, "restore_text_selection")]
          ELSE reset

cancel(s) ==
  IF ~s.is_pressed
  THEN s
  ELSE LET ended == IF s.is_over_target
                    THEN trigger_press_end(s, s.pointer_type, FALSE)
                    ELSE s
           reset == [ended EXCEPT !.is_pressed = FALSE,
                                  !.is_over_target = FALSE,
                                  !.active_pointer_id = {},
                                  !.pointer_type = "Unsupported",
                                  !.listeners = remove_all_listeners(@)]
       IN IF ~reset.allow_text_selection_on_press /\ reset.target # None
          THEN [reset EXCEPT !.selection_calls = Append(@, "restore_text_selection")]
          ELSE reset

(* ---------------------------- handlers -------------------------------- *)
\* element-scoped keyup
on_key_up(s, event) ==
  IF \/ ~is_valid_keyboard_event(event, s.element)
     \/ event.repeat
     \/ ~event.inside
  THEN s
  ELSE trigger_press_up(s, "Keyboard")

\* on_click calling the press callbacks although the click follows a press
on_click_unguarded(s, event) ==
  IF ~event.inside
  THEN s
  ELSE IF event.button # 0
  THEN s
  ELSE LET pressed ==
             IF /\ ~s.ignore_emulated_mouse_events
                /\ (s.pointer_type = "Virtual" \/ is_virtual_click(event))
             THEN trigger_press_end(
                    trigger_press_up(
                      trigger_press_start(s, "Virtual"), "Virtual"), "Virtual", TRUE)
             ELSE s
       IN [pressed EXCEPT !.ignore_emulated_mouse_events = FALSE,
                          !.ignore_click_after_press = FALSE]

\* on_click ending the press before it reports the release
on_click_end_before_up(s, event) ==
  IF ~event.inside
  THEN s
  ELSE IF event.button # 0
  THEN s
  ELSE LET pressed ==
             IF /\ ~s.ignore_click_after_press
                /\ ~s.ignore_emulated_mouse_events
                /\ (s.pointer_type = "Virtual" \/ is_virtual_click(event))
             THEN trigger_press_up(
                    trigger_press_end(
                      trigger_press_start(s, "Virtual"), "Virtual", TRUE), "Virtual")
             ELSE s
       IN [pressed EXCEPT !.ignore_emulated_mouse_events = FALSE,
                          !.ignore_click_after_press = FALSE]

on_click(s, event) ==
  IF ~event.inside
  THEN s
  ELSE IF event.button # 0
  THEN s
  ELSE LET pressed ==
             IF /\ ~s.ignore_click_after_press
                /\ ~s.ignore_emulated_mouse_events
                /\ (s.pointer_type = "Virtual" \/ is_virtual_click(event))
             THEN trigger_press_end(
                    trigger_press_up(
                      trigger_press_start(s, "Virtual"), "Virtual"), "Virtual", TRUE)
             ELSE s
       IN [pressed EXCEPT !.ignore_emulated_mouse_events = FALSE,
                          !.ignore_click_after_press = FALSE]

\* global_on_key_up committing the press wherever the key is released
global_on_key_up_always_commits(s, event) ==
  IF ~s.is_pressed \/ ~is_valid_keyboard_event(event, DocumentNode)
  THEN s
  ELSE LET ended == trigger_press_end([s EXCEPT !.is_pressed = FALSE],
                                      "Keyboard", TRUE)
           released == [ended EXCEPT !.listeners = remove_all_listeners(@)]
       IN IF s.target = None
          THEN released
          ELSE IF \/ ~IsHtmlElement(s.element)
                  \/ ~event.inside
                  \/ ~has_link_role(s.element)
          THEN released
          ELSE on_click(released, SyntheticClick)

\* document-scoped keyup; event.inside: the target element contains the
\* event's target
global_on_key_up(s, event) ==
  IF ~s.is_pressed \/ ~is_valid_keyboard_event(event, DocumentNode)
  THEN s
  ELSE LET contains_target == s.target # None /\ event.inside
           ended == trigger_press_end([s EXCEPT !.is_pressed = FALSE],
                                      "Keyboard", contains_target)
           released == [ended EXCEPT !.listeners = remove_all_listeners(@)]
       IN IF s.target = None
          THEN released
          ELSE IF \/ ~IsHtmlElement(s.element)
                  \/ ~event.inside
                  \/ ~has_link_role(s.element)
          THEN released
          ELSE on_click(released, SyntheticClick)

on_key_down(s, event) ==
  IF is_valid_keyboard_event(event, s.element) /\ event.inside
  THEN IF ~s.is_pressed /\ ~event.repeat
       THEN LET started == trigger_press_start(
                             [s EXCEPT !.target = TheElement, !.is_pressed = TRUE],
                             "Keyboard")
            IN [started EXCEPT !.listeners = add_listener(@, "keyup")]
       ELSE s
  ELSE s

on_drag_start(s, event) ==
  IF ~event.inside THEN s ELSE cancel(s)

on_mouse_down(s, event) == s

on_pointer_cancel(s, event) == cancel(s)

on_pointer_move(s, event) ==
  IF {event.pointer_id} # s.active_pointer_id
  THEN s
  ELSE IF s.target = None
  THEN s
  ELSE IF is_above_target(event) /\ ~s.is_over_target
  THEN trigger_press_start([s EXCEPT !.is_over_target = TRUE], s.pointer_type)
  ELSE IF s.is_over_target
  THEN LET ended == trigger_press_end([s EXCEPT !.is_over_target = FALSE],
                                      s.pointer_type, FALSE)
       IN IF ended.should_cancel_on_pointer_exit THEN cancel(ended) ELSE ended
  ELSE s

\* element-scoped pointerup that reports the release only of a press in
\* progress
on_pointer_up_during_press(s, event) ==
  IF ~event.inside \/ s.pointer_type = "Virtual"
  THEN s
  ELSE IF event.button # 0 \/ ~is_above_target(event) \/ ~s.is_pressed
  THEN s
  ELSE trigger_press_up(s, "Mouse")

\* element-scoped pointerup
on_pointer_up(s, event) ==
  IF ~event.inside \/ s.pointer_type = "Virtual"
  THEN s
  ELSE IF event.button # 0 \/ ~is_above_target(event)
  THEN s
  ELSE trigger_press_up(s, "Mouse")

\* document-scoped pointerup
global_on_pointer_up(s, event) ==
  IF \/ {event.pointer_id} # s.active_pointer_id
     \/ ~s.is_pressed
     \/ event.button # 0
  THEN s
  ELSE IF s.target = None
  THEN s
  ELSE LET ended == IF is_above_target(event)
                    THEN trigger_press_end(s, s.pointer_type, TRUE)
                    ELSE IF s.is_over_target
                    THEN trigger_press_end(s, s.pointer_type, FALSE)
                    ELSE s
           reset == [ended EXCEPT !.is_pressed = FALSE,
                                  !.is_over_target = FALSE,
                                  !.active_pointer_id = {},
                                  !.pointer_type = "Unsupported",
                                  !.listeners = remove_all_listeners(@)]
       IN IF ~reset.allow_text_selection_on_press
          THEN [reset EXCEPT !.selection_calls = Append(@, "restore_text_selection")]
          ELSE reset

\* on_pointer_down starting a gesture although a press is in progress
on_pointer_down_restarts(s, event) ==
  IF event.button = 0 \/ ~event.inside
  THEN s
  ELSE IF is_virtual_pointer_event(event)
  THEN [s EXCEPT !.pointer_type = "Virtual"]
  ELSE LET typed == [s EXCEPT !.pointer_type = PointerTypeFrom(event.pointer_type)]
           pressed == [typed EXCEPT !.is_pressed = TRUE,
                                    !.is_over_target = TRUE,
                                    !.active_pointer_id = {event.pointer_id},
                                    !.target = TheElement]
           suppressed ==
             IF pressed.allow_text_selection_on_press
             THEN [pressed EXCEPT !.selection_calls =
                                    Append(@, "disable_text_selection")]
             ELSE pressed
           started == trigger_press_start(suppressed, suppressed.pointer_type)
       IN [started EXCEPT !.listeners =
             add_listener(add_listener(add_listener(@,
               "pointermove"), "pointerup"), "pointercancel")]

on_pointer_down(s, event) ==
  IF event.button = 0 \/ ~event.inside
  THEN s
  ELSE IF is_virtual_pointer_event(event)
  THEN [s EXCEPT !.pointer_type = "Virtual"]
  ELSE LET typed == [s EXCEPT !.pointer_type = PointerTypeFrom(event.pointer_type)]
       IN IF typed.is_pressed
          THEN typed
          ELSE LET pressed == [typed EXCEPT !.is_pressed = TRUE,
                                            !.is_over_target = TRUE,
                                            !.active_pointer_id = {event.pointer_id},
                                            !.target = TheElement]
                   suppressed ==
                     IF pressed.allow_text_selection_on_press
                     THEN [pressed EXCEPT !.selection_calls =
                                            Append(@, "disable_text_selection")]
                     ELSE pressed
                   started == trigger_press_start(suppressed, suppressed.pointer_type)
               IN [started EXCEPT !.listeners =
                     add_listener(add_listener(add_listener(@,
                       "pointermove"), "pointerup"), "pointercancel")]

(* ------------------- dispatch to document listeners ------------------- *)
DocumentHandler(s, type, event) ==
  CASE type = "pointermove" -> on_pointer_move(s, event)
    [] type = "pointerup" -> global_on_pointer_up(s, event)
    [] type = "pointercancel" -> on_pointer_cancel(s, event)
    [] type = "keyup" -> global_on_key_up(s, event)

\* every registration of the type that is still attached when its turn
\* comes is called once
RECURSIVE DispatchN(_, _, _, _)
DispatchN(s, type, event, n) ==
  IF n = 0 \/ CountOf(s.listeners, type) = 0
  THEN s
  ELSE DispatchN(DocumentHandler(s, type, event), type, event, n - 1)

DispatchDocument(s, type, event) ==
  DispatchN(s, type, event, CountOf(s.listeners, type))

(* --------------------- recorded prefix of a run ----------------------- *)
\* hist records the input events of a run while they form one pointer
\* gesture from the initial state: a non-virtual pointerdown on the element,
\* then pointermoves and primary-button pointerups of the same pointer.  Any
\* other event, or a prefix longer than MaxHist, ends the recording.
HistTag(ev, event) ==
  [ev |-> ev, pointer_id |-> event.pointer_id,
   button |-> IF ev = "pointermove" THEN 0 ELSE event.button,
   over |-> is_above_target(event)]

Off == << [ev |-> "off", pointer_id |-> 0, button |-> 0, over |-> FALSE] >>

Recordable(ev, event) ==
  /\ hist # Off
  /\ Len(hist) < MaxHist
  /\ IF ev = "pointerdown"
     THEN /\ hist = << >>
          /\ event.inside
          /\ is_above_target(event)
          /\ ~is_virtual_pointer_event(event)
     ELSE /\ hist # << >>
          /\ event.pointer_id = hist[1].pointer_id
          /\ ev = "pointerup" => (event.button = 0 /\ event.inside = is_above_target(event))

Record(ev, event, s) ==
  IF ev \in {"pointerdown", "pointermove", "pointerup"} /\ Recordable(ev, event)
  THEN /\ hist' = Append(hist, HistTag(ev, event))
       /\ glog' = glog \o s.emitted
  ELSE /\ hist' = Off
       /\ glog' = << >>

\* last names the case the last event arrived in, for the events whose
\* outcome alone does not tell it
Last(ev, case) == IF case = "" THEN "" ELSE ev \o ":" \o case

PointerDownCase(event) == IF is_pressed THEN "pressed" ELSE ""

\* a document pointermove by what it does to the pointer's position: of
\* another pointer, staying over or off the target, entering, leaving
PointerMoveCase(event) ==
  IF CountOf(listeners, "pointermove") = 0 THEN ""
  ELSE IF {event.pointer_id} # active_pointer_id THEN "other"
  ELSE IF target = None THEN ""
  ELSE IF is_above_target(event) = is_over_target
  THEN (IF is_over_target THEN "stay_over" ELSE "stay_off")
  ELSE IF is_above_target(event) THEN "enter"
  ELSE IF should_cancel_on_pointer_exit THEN "exit_cancel"
  ELSE "exit"

\* a document pointerup of the active pointer with the primary button,
\* over the target or off it
PointerUpCase(event) ==
  IF /\ CountOf(listeners, "pointerup") > 0
     /\ {event.pointer_id} = active_pointer_id
     /\ event.button = 0
  THEN (IF is_above_target(event) THEN "active_over" ELSE "active_off")
  ELSE ""

\* the state cancel is invoked in
CancelCase ==
  IF ~is_pressed THEN "idle"
  ELSE IF ~is_over_target THEN "pressed"
  ELSE IF did_fire_press_start THEN "over_started"
  ELSE "over"

KeyDownCase(event) ==
  IF ~(is_valid_keyboard_event(event, element) /\ event.inside) THEN ""
  ELSE IF ~is_pressed /\ ~event.repeat THEN ""
  ELSE "further"

KeyUpCase(event) ==
  IF ~is_pressed \/ CountOf(listeners, "keyup") = 0 THEN "idle"
  ELSE IF ~(did_fire_press_start /\ is_valid_keyboard_event(event, DocumentNode)) THEN ""
  ELSE IF event.inside THEN "held_inside"
  ELSE "held_outside"

ClickCase(event) ==
  IF ~event.inside \/ event.button # 0 THEN ""
  ELSE IF ignore_click_after_press THEN "after_press"
  ELSE IF \/ is_disabled
          \/ ignore_emulated_mouse_events
          \/ ~(pointer_type = "Virtual" \/ is_virtual_click(event)) THEN ""
  ELSE IF did_fire_press_start THEN "virtual_started"
  ELSE "virtual"

(* ------------------------------ actions ------------------------------- *)
Commit(s) ==
  /\ Len(s.listeners) <= MaxListeners
  /\ is_pressed' = s.is_pressed
  /\ did_fire_press_start' = s.did_fire_press_start
  /\ ignore_click_after_press' = s.ignore_click_after_press
  /\ ignore_emulated_mouse_events' = s.ignore_emulated_mouse_events
  /\ active_pointer_id' = s.active_pointer_id
  /\ target' = s.target
  /\ is_over_target' = s.is_over_target
  /\ pointer_type' = s.pointer_type
  /\ listeners' = s.listeners
  /\ emitted' = s.emitted
  /\ selection_calls' = s.selection_calls
  /\ UNCHANGED << should_cancel_on_pointer_exit, allow_text_selection_on_press,
                  element >>
  /\ UNCHANGED << sel, probe, transitions >>

InitWith(recording) ==
  /\ is_pressed = FALSE
  /\ did_fire_press_start = FALSE
  /\ ignore_click_after_press = FALSE
  /\ ignore_emulated_mouse_events = FALSE
  /\ active_pointer_id = {}
  /\ target = None
  /\ is_over_target = FALSE
  /\ pointer_type = "Unsupported"
  /\ listeners = << >>
  /\ is_disabled \in BOOLEAN
  /\ should_cancel_on_pointer_exit \in BOOLEAN
  /\ allow_text_selection_on_press \in BOOLEAN
  /\ element \in Elements
  /\ emitted = << >>
  /\ selection_calls = << >>
  /\ hist = recording
  /\ glog = << >>
  /\ last = ""

\* inject_providers has just returned: the contexts hold their defaults.
\* style is the inline user-select of each element, style_attribute whether
\* the element has a style attribute (user-select is the one property the
\* attribute may hold), original the inline user-select at this moment.
\* The iOS strategy reads the style of the document element only, the
\* generic strategy the styles of the two HTML elements only.
InitSelection(platforms, styles) ==
  \E platform \in platforms :
    \E root \in (IF platform THEN styles ELSE {""}) :
      \E inline \in { f \in [SelElements -> (IF platform THEN {""} ELSE styles)] :
                        f["svg"] = "" /\ f["math"] = "" } :
        \E attribute \in { f \in [SelElements -> BOOLEAN] :
                             /\ \A el \in SelElements : inline[el] # "" => f[el]
                             /\ ~f["svg"] /\ ~f["math"]
                             /\ (platform \/ styles = {""}) => ~f["a"] /\ ~f["b"] } :
          sel = [ios |-> platform,
                 selection |-> "Default",
                 user_select |-> {},
                 root_style |-> root,
                 element_list |-> << >>,
                 style |-> inline,
                 style_attribute |-> attribute,
                 original |-> inline,
                 timeouts |-> 0,
                 recent_calls |-> << >>]

\* use_provider has run, setup_global_events with it: nothing transitions
\* and no callback was handed over. on_start_closure is a local of
\* setup_global_events, dropped when it returns while its function stays
\* registered for "transitionrun": live says whether that function can
\* still be called
TransitionsWith(live) ==
  [elements |-> << >>,
   callbacks |-> << >>,
   cancel_listeners |-> {},
   frames |-> {},
   done |-> {},
   invoked |-> [c \in CallbackIds |-> 0],
   on_start_closure |-> live]

NoTransitions == TransitionsWith(TRUE)

\* no classifier call has been made
NoProbe == [fn |-> "", input |-> SyntheticClick, result |-> FALSE]

\* use_press has just returned; the run is not recorded
Init ==
  /\ InitWith(Off)
  /\ InitSelection({FALSE}, {""})
  /\ probe = NoProbe
  /\ transitions = NoTransitions

\* use_press has just returned; the run is recorded while it is one gesture
InitGesture ==
  /\ InitWith(<< >>)
  /\ InitSelection({FALSE}, {""})
  /\ probe = NoProbe
  /\ transitions = NoTransitions

\* a pointerdown event on the element
PointerDown(event) ==
  LET s == on_pointer_down(Cur, event)
  IN /\ Commit(s)
     /\ Record("pointerdown", event, s)
     /\ last' = Last("pointerdown", PointerDownCase(event))
     /\ UNCHANGED is_disabled

\* a pointermove event anywhere in the document
PointerMove(event) ==
  LET s == DispatchDocument(Cur, "pointermove", event)
  IN /\ Commit(s)
     /\ Record("pointermove", event, s)
     /\ last' = Last("pointermove", PointerMoveCase(event))
     /\ UNCHANGED is_disabled

\* a pointerup event: the element's handler, then the document's listeners
PointerUp(event) ==
  LET s == DispatchDocument(on_pointer_up(Cur, event), "pointerup", event)
  IN /\ Commit(s)
     /\ Record("pointerup", event, s)
     /\ last' = Last("pointerup", PointerUpCase(event))
     /\ UNCHANGED is_disabled

PointerCancel(event) ==
  LET s == DispatchDocument(Cur, "pointercancel", event)
  IN /\ Commit(s)
     /\ Record("pointercancel", event, s)
     /\ last' = Last("cancel", IF CountOf(listeners, "pointercancel") > 0
                                THEN CancelCase ELSE "")
     /\ UNCHANGED is_disabled

KeyDown(event) ==
  LET s == on_key_down(Cur, event)
  IN /\ Commit(s)
     /\ Record("keydown", event, s)
     /\ last' = Last("keydown", KeyDownCase(event))
     /\ UNCHANGED is_disabled

\* a keyup event: the element's handler, then the document's listeners
KeyUp(event) ==
  LET s == DispatchDocument(on_key_up(Cur, event), "keyup", event)
  IN /\ Commit(s)
     /\ Record("keyup", event, s)
     /\ last' = Last("keyup", KeyUpCase(event))
     /\ UNCHANGED is_disabled

Click(event) ==
  LET s == on_click(Cur, event)
  IN /\ Commit(s)
     /\ Record("click", event, s)
     /\ last' = Last("click", ClickCase(event))
     /\ UNCHANGED is_disabled

DragStart(event) ==
  LET s == on_drag_start(Cur, event)
  IN /\ Commit(s)
     /\ Record("dragstart", event, s)
     /\ last' = Last("cancel", IF event.inside THEN CancelCase ELSE "")
     /\ UNCHANGED is_disabled

MouseDown(event) ==
  LET s == on_mouse_down(Cur, event)
  IN /\ Commit(s)
     /\ Record("mousedown", event, s)
     /\ last' = Last("mousedown", "")
     /\ UNCHANGED is_disabled

\* the is_disabled prop is a signal: its owner may set it at any time
SetDisabled(value) ==
  /\ is_disabled # value
  /\ is_disabled' = value
  /\ Commit(Cur)
  /\ hist' = Off
  /\ glog' = << >>
  /\ last' = Last("set_disabled", "")

Next ==
  \/ \E event \in PointerDownEvents : PointerDown(event)
  \/ \E event \in PointerMoveEvents : PointerMove(event)
  \/ \E event \in PointerUpEvents : PointerUp(event)
  \/ \E event \in PointerCancelEvents : PointerCancel(event)
  \/ \E event \in KeyboardEvents : KeyDown(event)
  \/ \E event \in KeyboardEvents : KeyUp(event)
  \/ \E event \in MouseEvents : Click(event)
  \/ \E event \in BOOLEAN : DragStart([inside |-> event])
  \/ \E event \in {SyntheticClick} : MouseDown(event)
  \/ \E value \in BOOLEAN : SetDisabled(value)

Spec == Init /\ [][Next]_vars

\* runs of pointerdown, pointermove and pointerup events only, recorded
NextGesture ==
  \/ \E event \in PointerDownEvents : PointerDown(event)
  \/ \E event \in PointerMoveEvents : PointerMove(event)
  \/ \E event \in PointerUpEvents : PointerUp(event)

SpecGesture == InitGesture /\ [][NextGesture]_vars

(* ----------------------- text selection on its own -------------------- *)
\* a call of disable_text_selection, of restore_text_selection, or a run
\* of a scheduled callback
Call(op, el) == [op |-> op, el |-> el]

\* the latest MaxCalls calls
Remember(d, op, el) ==
  LET all == Append(d.recent_calls, Call(op, el))
  IN [d EXCEPT !.recent_calls = IF Len(all) > MaxCalls THEN Tail(all) ELSE all]

CommitSelection(d) ==
  /\ d.timeouts <= MaxTimeouts
  /\ sel' = d
  /\ UNCHANGED << press_vars, probe, transitions >>

\* a call with Option<Element>: None or an element
DisableTextSelection(el) ==
  /\ el \in SelElements \cup {None}
  /\ CommitSelection(Remember(disable_text_selection(sel, el), "disable", el))

\* a call with an element
RestoreTextSelection(el) ==
  /\ el \in SelElements
  /\ CommitSelection(Remember(restore_text_selection(sel, el), "restore", el))

\* the timer of one scheduled callback expires
Timeout ==
  /\ sel.timeouts > 0
  /\ CommitSelection(Remember([restore_callback(sel) EXCEPT !.timeouts = @ - 1],
                               "timeout", None))

InitPressIdle ==
  /\ InitWith(Off)
  /\ ~is_disabled
  /\ ~should_cancel_on_pointer_exit
  /\ ~allow_text_selection_on_press
  /\ element = ElementOf("HtmlElement", "DIV", "", "button", FALSE, FALSE)

NextSelection ==
  \/ \E el \in SelElements \cup {None} : DisableTextSelection(el)
  \/ \E el \in SelElements : RestoreTextSelection(el)
  \/ Timeout

\* an idle use_press instance; either platform and any inline styles
InitTextSelection ==
  /\ InitPressIdle
  /\ InitSelection(BOOLEAN, StyleValues)
  /\ probe = NoProbe
  /\ transitions = NoTransitions

SpecSelection == InitTextSelection /\ [][NextSelection]_vars

(* --------------------- run_after_transition on its own ---------------- *)
CommitTransitions(t) ==
  /\ transitions' = t
  /\ UNCHANGED << press_vars, sel, probe >>

\* a call of run_after_transition with a callback not handed over before
RunAfterTransition(callback) ==
  /\ callback \notin transitions.frames \cup transitions.done
  /\ CommitTransitions(run_after_transition(transitions, callback))

\* the animation frame of one requested callback
AnimationFrame(callback) ==
  /\ callback \in transitions.frames
  /\ CommitTransitions([cb(transitions, callback) EXCEPT
                          !.frames = @ \ {callback},
                          !.done = @ \cup {callback}])

\* a "transitionrun" event reaches the body
TransitionRun(el, property_name) ==
  /\ el \in TransElements
  /\ CommitTransitions(IF transitions.on_start_closure
                       THEN on_transition_start(transitions, el, property_name)
                       ELSE transitions)

\* a "transitionend" event reaches the body
TransitionEnd(el, property_name) ==
  /\ el \in TransElements
  /\ CommitTransitions(on_transition_end(transitions, el, property_name))

\* a "transitioncancel" event on an element that has the listener
TransitionCancel(el, property_name) ==
  /\ el \in transitions.cancel_listeners
  /\ CommitTransitions(on_transition_end(transitions, el, property_name))

NextTransition ==
  \/ \E callback \in CallbackIds : RunAfterTransition(callback)
  \/ \E callback \in CallbackIds : AnimationFrame(callback)
  \/ \E el \in TransElements, property_name \in Properties :
       TransitionRun(el, property_name)
  \/ \E el \in TransElements, property_name \in Properties :
       TransitionEnd(el, property_name)
  \/ \E el \in TransElements, property_name \in Properties :
       TransitionCancel(el, property_name)

InitTransition ==
  /\ InitPressIdle
  /\ InitSelection({FALSE}, {""})
  /\ probe = NoProbe
  /\ \E live \in BOOLEAN : transitions = TransitionsWith(live)

SpecTransition == InitTransition /\ [][NextTransition]_vars

(* ------------------------- classifiers on their own ------------------- *)
\* each run classifies one input: the functions keep no state between calls

\* click events as is_virtual_click reads them
VirtualClickInputs ==
  { [ MouseEventOf(0, TRUE, MouseShapeOf(m, tr, pe, bs, dt, an)) EXCEPT !.type = ty ] :
    m \in {0, 1}, tr \in BOOLEAN, pe \in BOOLEAN, bs \in {0, 1, 2},
    dt \in {0, 1}, an \in BOOLEAN, ty \in {"click", "mousedown"} }

ClassifyClick(event) ==
  /\ probe = NoProbe
  /\ probe' = [fn |-> "is_virtual_click", input |-> event,
                result |-> is_virtual_click(event)]
  /\ UNCHANGED << press_vars, sel, transitions >>

\* pointer events as is_virtual_pointer_event reads them, on every pointer,
\* button and position the gesture events take
VirtualPointerInputs ==
  { PointerEventOf(p, b, TRUE, x,
                   [width |-> w, height |-> h, pressure |-> pr, detail |-> dt,
                    pointer_type |-> pt]) :
    p \in PointerIds, b \in Buttons, x \in {1, 5}, w \in 0..2, h \in 0..2,
    pr \in {0, 1}, dt \in {0, 1}, pt \in {"mouse", "touch", "pen"} }

ClassifyPointer(event) ==
  /\ probe = NoProbe
  /\ probe' = [fn |-> "is_virtual_pointer_event", input |-> event,
                result |-> is_virtual_pointer_event(event)]
  /\ UNCHANGED << press_vars, sel, transitions >>

\* coordinates around a target between 0 and 10, and contact sizes
Coordinates == {-1, 0, 5, 10, 11, 20}
ContactSizes == {0, 1}

\* bounding client rectangles of a target
TargetRects == { Rect(0, 10, 10, 0), Rect(5, 5, 5, 5) }

PointOf(kind, x, y, w, h, touches) ==
  [kind |-> kind, client_x |-> x, client_y |-> y, width |-> w, height |-> h,
   touches |-> touches]

\* the items of TouchEvent::touches()
Touches ==
  { [client_x |-> x, client_y |-> y, radius_x |-> rx, radius_y |-> ry] :
    x \in {5, 11, 20}, y \in {5, 11}, rx \in ContactSizes, ry \in ContactSizes }

\* the events is_above_target is handed: mouse, drag and pointer events
\* at a client point, touch events with up to two active touches
OverTargetInputs ==
  { PointOf(kind, x, y, 0, 0, << >>) :
    kind \in {"MouseEvent", "DragEvent"}, x \in Coordinates, y \in Coordinates }
  \cup { PointOf("PointerEvent", x, y, w, h, << >>) :
         x \in Coordinates, y \in Coordinates,
         w \in ContactSizes, h \in ContactSizes }
  \cup { PointOf("TouchEvent", 0, 0, 0, 0, touches) :
         touches \in {<< >>} \cup { << a >> : a \in Touches }
                     \cup { << a, b >> : a \in Touches, b \in Touches } }

ClassifyOverTarget(point, rect) ==
  /\ probe = NoProbe
  /\ probe' = [fn |-> "is_above_target",
                input |-> [event |-> point, target |-> rect],
                result |-> is_above_target_of(point, rect)]
  /\ UNCHANGED << press_vars, sel, transitions >>

\* keys with their codes: Enter, space, space under another key name, a letter
KeyCodes ==
  { [key |-> "Enter", code |-> "Enter"], [key |-> " ", code |-> "Space"],
    [key |-> "Spacebar", code |-> "Space"], [key |-> "a", code |-> "KeyA"] }

Roles == {None, "button", "link"}

\* targets of a key event: plain elements, inputs of several types,
\* textareas, and anchors with and without href
KeyboardTargets ==
  { ElementOf("HtmlElement", "DIV", "", role, FALSE, ce) :
    role \in Roles, ce \in BOOLEAN }
  \cup { ElementOf("HtmlInputElement", "INPUT", type, role, FALSE, FALSE) :
         type \in {"checkbox", "radio", "button", "submit", "text"},
         role \in Roles }
  \cup { ElementOf("HtmlTextAreaElement", "TEXTAREA", "", role, FALSE, FALSE) :
         role \in Roles }
  \cup { ElementOf("HtmlAnchorElement", "A", "", role, href, ce) :
         role \in Roles, href \in BOOLEAN, ce \in BOOLEAN }

ClassifyKeyboardEvent(event, current_target) ==
  /\ probe = NoProbe
  /\ probe' = [fn |-> "is_valid_keyboard_event",
                input |-> [event |-> event, target |-> current_target],
                result |-> is_valid_keyboard_event(event, current_target)]
  /\ UNCHANGED << press_vars, sel, transitions >>

NextClassifier ==
  \/ \E event \in VirtualClickInputs : ClassifyClick(event)
  \/ \E event \in KeyCodes, current_target \in KeyboardTargets :
       ClassifyKeyboardEvent(event, current_target)
  \/ \E event \in VirtualPointerInputs : ClassifyPointer(event)
  \/ \E point \in OverTargetInputs, rect \in TargetRects :
       ClassifyOverTarget(point, rect)

InitClassifier ==
  /\ InitPressIdle
  /\ InitSelection({FALSE}, {""})
  /\ probe = NoProbe
  /\ transitions = NoTransitions

SpecClassifier == InitClassifier /\ [][NextClassifier]_vars

(* ------------------------------ typing -------------------------------- *)
TypeOK ==
  /\ is_pressed \in BOOLEAN
  /\ did_fire_press_start \in BOOLEAN
  /\ ignore_click_after_press \in BOOLEAN
  /\ ignore_emulated_mouse_events \in BOOLEAN
  /\ active_pointer_id \in {{}} \cup {{p} : p \in PointerIds}
  /\ target \in {None, TheElement}
  /\ is_over_target \in BOOLEAN
  /\ pointer_type \in PointerType
  /\ Len(listeners) <= MaxListeners
  /\ is_disabled \in BOOLEAN
  /\ sel.selection \in Selection
  /\ sel.root_style \in StyleValues
  /\ sel.timeouts \in 0..MaxTimeouts
  /\ Len(sel.recent_calls) <= MaxCalls

(* ------------------------- reading the output ------------------------- *)
\* the press events of a callback sequence, without the press-change calls
IsPressEvent(call) == call.event_type # "PressChange"
PressEventsOf(calls) == SelectSeq(calls, IsPressEvent)

\* the event types of a callback sequence
TypesOf(calls) == [i \in 1..Len(calls) |-> calls[i].event_type]

CountType(calls, event_type) ==
  Cardinality({i \in 1..Len(calls) : calls[i].event_type = event_type})

\* position of the first call of the type, 0 when there is none
FirstOf(calls, event_type) ==
  IF CountType(calls, event_type) = 0
  THEN 0
  ELSE CHOOSE i \in 1..Len(calls) :
         /\ calls[i].event_type = event_type
         /\ \A j \in 1..(i - 1) : calls[j].event_type # event_type

Tag(ev, pointer_id, button, over) ==
  [ev |-> ev, pointer_id |-> pointer_id, button |-> button, over |-> over]

(* ------------------------------ claims -------------------------------- *)
\* C1: on an enabled element the gesture pointerdown (primary button, not
\* virtual, on the element), pointermove inside, pointerup inside, all of one
\* pointer, calls each of PressStart, PressUp, PressEnd and Press exactly
\* once, with PressStart before PressEnd and before Press.
C1_PressOnRelease ==
  \A p \in PointerIds :
    ( /\ ~is_disabled
      /\ hist = << Tag("pointerdown", p, 0, TRUE), Tag("pointermove", p, 0, TRUE),
                   Tag("pointerup", p, 0, TRUE) >> )
    => /\ CountType(glog, "PressStart") = 1
       /\ CountType(glog, "PressEnd") = 1
       /\ CountType(glog, "PressUp") = 1
       /\ CountType(glog, "Press") = 1
       /\ FirstOf(glog, "PressStart") < FirstOf(glog, "Press")
       /\ FirstOf(glog, "PressStart") < FirstOf(glog, "PressEnd")

\* the signals and the registry of the instance
gesture_state ==
  << is_pressed, did_fire_press_start, ignore_click_after_press,
     ignore_emulated_mouse_events, active_pointer_id, target, is_over_target,
     pointer_type, listeners >>

\* C2: a pointerdown with a non-primary button or a target outside the
\* element is ignored; a primary-button, non-virtual pointerdown on the
\* enabled element, arriving while is_pressed is false, sets is_pressed and
\* is_over_target, records the pointer id and the target, calls PressStart
\* once and registers the document's pointermove, pointerup and pointercancel
\* listeners.
C2_PointerDownStartsGesture ==
  [][ \A event \in PointerDownEvents :
        PointerDown(event) =>
          /\ (event.button # 0 \/ ~event.inside) =>
               (UNCHANGED gesture_state /\ emitted' = << >>)
          /\ ( /\ event.button = 0
               /\ event.inside
               /\ ~is_virtual_pointer_event(event)
               /\ ~is_pressed
               /\ ~is_disabled ) =>
               ( /\ is_pressed'
                 /\ is_over_target'
                 /\ active_pointer_id' = {event.pointer_id}
                 /\ target' = TheElement
                 /\ CountType(emitted', "PressStart") = 1
                 /\ listeners' = listeners \o
                      << "pointermove", "pointerup", "pointercancel" >> )
    ]_vars

\* C3: the gesture pointerdown on the element, pointermove off the target,
\* pointerup off the target, all of one pointer, calls PressStart, then
\* PressEnd, and never Press.
C3_ReleaseOutside ==
  \A p \in PointerIds, b \in Buttons :
    ( /\ ~is_disabled
      /\ hist = << Tag("pointerdown", p, b, TRUE), Tag("pointermove", p, 0, FALSE),
                   Tag("pointerup", p, 0, FALSE) >> )
    => TypesOf(PressEventsOf(glog)) = << "PressStart", "PressEnd" >>

\* C4: without cancel-on-exit, the gesture pointerdown on the element,
\* pointermove off, pointermove back on, pointerup on the target calls
\* PressStart twice and PressEnd once before the release, and the release
\* commits with one Press.
IsStartEndPress(call) == call.event_type \in {"PressStart", "PressEnd", "Press"}

C4_ReEntry ==
  \A p \in PointerIds, b \in Buttons :
    ( /\ ~is_disabled
      /\ ~should_cancel_on_pointer_exit
      /\ hist = << Tag("pointerdown", p, b, TRUE), Tag("pointermove", p, 0, FALSE),
                   Tag("pointermove", p, 0, TRUE), Tag("pointerup", p, 0, TRUE) >> )
    => TypesOf(SelectSeq(glog, IsStartEndPress)) =
         << "PressStart", "PressEnd", "PressStart", "PressEnd", "Press" >>

\* C5: with cancel-on-exit, once the active pointer of a started gesture has
\* moved off the target the press is cancelled: PressEnd without Press, the
\* transient signals reset, the document listeners released; whatever the
\* pointer does afterwards, PressStart is not called again and no Press is
\* called.
C5_CancelOnExit ==
  \A p \in PointerIds, b \in Buttons :
    ( /\ ~is_disabled
      /\ should_cancel_on_pointer_exit
      /\ Len(hist) >= 2
      /\ hist[1] = Tag("pointerdown", p, b, TRUE)
      /\ hist[2] = Tag("pointermove", p, 0, FALSE)
      /\ Len(glog) > 0
      /\ glog[1].event_type = "PressStart" )
    => /\ CountType(glog, "PressStart") = 1
       /\ CountType(glog, "PressEnd") = 1
       /\ CountType(glog, "Press") = 0
       /\ Len(hist) = 2 =>
            ( /\ ~is_pressed
              /\ ~is_over_target
              /\ active_pointer_id = {}
              /\ pointer_type = "Unsupported"
              /\ listeners = << >> )

\* C6: for an eligible key on the enabled element, a non-repeat keydown
\* arriving while is_pressed is false calls PressStart once, with pointer
\* kind Keyboard, records the target and registers one keyup listener on the
\* document; a repeat keydown, or any keydown while is_pressed is true,
\* calls nothing and registers nothing.
C6_KeyDownOnce ==
  [][ \A event \in KeyboardEvents :
        KeyDown(event) =>
          /\ ( /\ is_valid_keyboard_event(event, element)
               /\ event.inside
               /\ ~is_disabled
               /\ ~is_pressed
               /\ ~event.repeat ) =>
               ( /\ emitted' = << PressEvent("Keyboard", "PressStart"),
                                  PressChange(TRUE) >>
                 /\ target' = TheElement
                 /\ listeners' = Append(listeners, "keyup") )
          /\ (is_pressed \/ event.repeat) =>
               (emitted' = << >> /\ listeners' = listeners)
    ]_vars

VirtualPress ==
  << PressEvent("Virtual", "PressStart"), PressChange(TRUE),
     PressEvent("Virtual", "PressUp"),
     PressEvent("Virtual", "PressEnd"), PressChange(FALSE),
     PressEvent("Virtual", "Press") >>

\* C8 as stated: a primary-button click on the enabled element that is
\* virtual (is_virtual_click, or the recorded pointer kind is Virtual) and
\* is not suppressed by ignore_click_after_press or
\* ignore_emulated_mouse_events calls PressStart, PressUp, PressEnd and
\* Press, in that order, each with pointer kind Virtual.
C8_VirtualClickAsStated ==
  last \in {"click:virtual", "click:virtual_started"} => emitted = VirtualPress

\* C8 (amended): the same click, arriving while no PressStart is
\* outstanding (did_fire_press_start false), calls PressStart, PressUp,
\* PressEnd and Press, in that order, each with pointer kind Virtual; while
\* a PressStart is outstanding it calls PressUp, PressEnd and Press only.
C8_VirtualClick ==
  /\ last = "click:virtual" => emitted = VirtualPress
  /\ last = "click:virtual_started" => emitted = SubSeq(VirtualPress, 3, 6)

\* a virtual click has just been turned into a whole press
C8_Witness ==
  /\ last = "click:virtual"
  /\ emitted = VirtualPress

\* C9: a virtual pointerdown (primary button, on the element) starts no
\* gesture: the pointer kind becomes Virtual, is_pressed is left as it was,
\* nothing is called, no document listener is registered and no
\* text-selection suppression is requested.
C9_VirtualPointerDown ==
  [][ \A event \in PointerDownEvents :
        ( /\ event.button = 0
          /\ event.inside
          /\ is_virtual_pointer_event(event)
          /\ PointerDown(event) )
        => /\ pointer_type' = "Virtual"
           /\ is_pressed' = is_pressed
           /\ emitted' = << >>
           /\ listeners' = listeners
           /\ selection_calls' = << >>
    ]_vars

\* C10: a handled click (primary button, on the element) that arrives while
\* ignore_click_after_press is true calls no press callback and resets
\* ignore_click_after_press and ignore_emulated_mouse_events to false.
C10_ClickAfterPress ==
  last = "click:after_press" =>
    /\ emitted = << >>
    /\ ~ignore_click_after_press
    /\ ~ignore_emulated_mouse_events

\* such a click has just been handled
C10_Witness ==
  /\ last = "click:after_press"
  /\ emitted = << >>
  /\ ~ignore_click_after_press

C12_CancelIdempotent ==
  [][ /\ last' = "cancel:idle" =>
           /\ UNCHANGED gesture_state
           /\ emitted' = << >>
           /\ selection_calls' = << >>
      /\ last' \in {"cancel:pressed", "cancel:over", "cancel:over_started"} =>
           ~is_pressed'
    ]_vars

\* a cancel has arrived after a gesture, with no press in progress
C12_Witness ==
  /\ last = "cancel:idle"
  /\ target = TheElement
  /\ ~is_pressed
  /\ emitted = << >>

\* what cancel leaves behind when it was invoked during a press over the
\* target
CancelledOverTarget ==
  /\ CountType(emitted, "Press") = 0
  /\ ~is_pressed
  /\ ~is_over_target
  /\ ~did_fire_press_start
  /\ active_pointer_id = {}
  /\ pointer_type = "Unsupported"
  /\ listeners = << >>
  /\ ~allow_text_selection_on_press =>
       selection_calls = << "restore_text_selection" >>

C14_DisabledEmitsNoPress ==
  is_disabled =>
    \A i \in 1..Len(emitted) :
      /\ emitted[i].event_type \notin {"PressStart", "PressUp", "Press"}
      /\ emitted[i] # PressChange(TRUE)

\* a pointerdown has begun a gesture on the disabled element
C14_Witness ==
  /\ is_disabled
  /\ is_pressed
  /\ ~did_fire_press_start
  /\ listeners = << "pointermove", "pointerup", "pointercancel" >>
  /\ emitted = << >>

\* C15: a pointerdown that starts a gesture requests the suppression of
\* text selection for the target iff allow_text_selection_on_press is
\* false.
C15_SuppressUnlessAllowed ==
  [][ ( /\ ~is_pressed
        /\ is_pressed'
        /\ listeners' = listeners \o << "pointermove", "pointerup", "pointercancel" >> )
      => ( (selection_calls' = << "disable_text_selection" >>)
           <=> ~allow_text_selection_on_press )
    ]_vars

\* C16: after every termination of a gesture (document pointerup of the
\* active pointer, pointercancel, dragstart, cancel-on-exit, document keyup)
\* the registry is empty, and the registry never holds more than the
\* listeners of one gesture.
C16_ListenersReleased ==
  /\ last \in {"pointerup:active_over", "pointerup:active_off",
               "pointermove:exit_cancel",
               "cancel:pressed", "cancel:over", "cancel:over_started",
               "keyup:held_inside", "keyup:held_outside"} =>
       listeners = << >>
  /\ Len(listeners) <= 3

\* the operations of the latest calls, oldest first
OpsOf(d) == [i \in 1..Len(d.recent_calls) |-> d.recent_calls[i].op]

\* the sequence ends with the suffix
EndsWith(seq, suffix) ==
  /\ Len(seq) >= Len(suffix)
  /\ SubSeq(seq, Len(seq) - Len(suffix) + 1, Len(seq)) = suffix

\* C17: generic strategy: a second disable_text_selection of an element
\* right after the first, with no restore between them, leaves the element
\* list as the first call left it: the value recorded for the element is
\* still the one the first call recorded.
C17_SuppressTwice ==
  [][ \A el \in SelElements :
        ( /\ ~sel.ios
          /\ EndsWith(sel'.recent_calls,
                      << Call("disable", el), Call("disable", el) >>) )
        => sel'.element_list = sel.element_list
    ]_vars

\* an HTML element with an inline value has been suppressed twice in a row
C17_Witness ==
  /\ ~sel.ios
  /\ EndsWith(sel.recent_calls, << Call("disable", "a"), Call("disable", "a") >>)
  /\ sel.element_list = << [el |-> "a", value |-> "text"] >>

\* C18: iOS strategy: disable, restore, disable again with no callback run
\* between them leaves -webkit-user-select of the document element "none"
\* and the state Disabled; a scheduled callback that runs while the state
\* is Disabled restores nothing.
C18_ResuppressBeforeRestoration ==
  [][ /\ ( /\ sel.ios
           /\ EndsWith(OpsOf(sel), << "disable", "restore" >>)
           /\ EndsWith(OpsOf(sel'), << "restore", "disable" >>) )
         => ( sel'.root_style = "none" /\ sel'.selection = "Disabled" )
      /\ ( /\ sel.ios
           /\ sel.selection = "Disabled"
           /\ EndsWith(OpsOf(sel'), << "timeout" >>) )
         => ( /\ sel'.root_style = sel.root_style
              /\ sel'.selection = sel.selection
              /\ sel'.user_select = sel.user_select )
    ]_vars

\* C19: iOS strategy: disable followed by restore leaves the state
\* Restoring with a restoration scheduled; when the callback runs while the
\* state is still Restoring it puts the recorded -webkit-user-select value
\* (or the empty value) back on the document element and the state returns
\* to Default.
C19_RestorationRuns ==
  [][ /\ ( /\ sel'.ios
           /\ EndsWith(OpsOf(sel'), << "disable", "restore" >>) )
         => ( sel'.selection = "Restoring" /\ sel'.timeouts > 0 )
      /\ ( /\ sel.ios
           /\ sel.selection = "Restoring"
           /\ sel.timeouts > 0
           /\ sel'.timeouts < sel.timeouts )
         => ( /\ sel'.selection = "Default"
              /\ sel'.root_style \in (IF sel.user_select = {} THEN {""}
                                       ELSE sel.user_select) )
    ]_vars

C21_IsVirtualPointerEvent ==
  probe.fn = "is_virtual_pointer_event" =>
    LET event == probe.input
        zero_size == event.width = 0 /\ event.height = 0
        unit_mouse == << event.width, event.height, event.pressure,
                         event.detail, event.pointer_type >>
                      = << 1, 1, 0, 0, "mouse" >>
    IN probe.result = (zero_size \/ unit_mouse)

\* a 1x1 touch without pressure is classified as a real pointer event
C21_Witness ==
  /\ probe.fn = "is_virtual_pointer_event"
  /\ probe.input.width = 1
  /\ probe.input.height = 1
  /\ probe.input.pressure = 0
  /\ probe.input.detail = 0
  /\ probe.input.pointer_type = "touch"
  /\ ~probe.result

\* the two intervals [a1, a2] and [b1, b2] share a point
Intersect(a1, a2, b1, b2) == \E v \in (a1..a2) : b1 <= v /\ v <= b2

\* some rectangle of the list meets the target rectangle on both axes,
\* touching edges included
MeetsTarget(rects, rect) ==
  \E i \in 1..Len(rects) :
    /\ Intersect(rects[i].left, rects[i].right, rect.left, rect.right)
    /\ Intersect(rects[i].top, rects[i].bottom, rect.top, rect.bottom)

\* one rectangle for each active touch, inflated by the touch's radius
TouchRects(event) ==
  [i \in 1..Len(event.touches) |->
     Rect(event.touches[i].client_y - event.touches[i].radius_y,
          event.touches[i].client_x + event.touches[i].radius_x,
          event.touches[i].client_y + event.touches[i].radius_y,
          event.touches[i].client_x - event.touches[i].radius_x)]

\* the single degenerate rectangle at the event's client point
PointRects(event) ==
  << Rect(event.client_y, event.client_x, event.client_y, event.client_x) >>

\* C22 as stated: the overlap test is true iff some input rectangle meets
\* the target's bounding rectangle on both axes with inclusive bounds,
\* where every event but a touch event contributes the degenerate rectangle
\* at its client point and a touch event one rectangle per active touch
\* inflated by the touch's radius.
C22_OverTargetAsStated ==
  probe.fn = "is_above_target" =>
    LET event == probe.input.event
        rects == IF event.kind = "TouchEvent"
                 THEN TouchRects(event) ELSE PointRects(event)
    IN probe.result = MeetsTarget(rects, probe.input.target)

\* C22: the overlap test is true iff some input rectangle meets the
\* target's bounding rectangle on both axes with inclusive bounds, where a
\* mouse or drag event contributes the degenerate rectangle at its client
\* point, a pointer event the rectangle around its client point inflated by
\* the event's width and height, and a touch event one rectangle per active
\* touch inflated by the touch's radius; no rectangle gives false.
C22_OverTarget ==
  probe.fn = "is_above_target" =>
    LET event == probe.input.event
        rects == CASE event.kind = "TouchEvent" -> TouchRects(event)
                   [] event.kind = "PointerEvent" ->
                        << Rect(event.client_y - event.height,
                                event.client_x + event.width,
                                event.client_y + event.height,
                                event.client_x - event.width) >>
                   [] OTHER -> PointRects(event)
    IN probe.result = MeetsTarget(rects, probe.input.target)

\* a pointer event one unit right of the target {0,0,10,10} with width 1
\* is over the target
C22_Witness ==
  /\ probe.fn = "is_above_target"
  /\ probe.input.target = Rect(0, 10, 10, 0)
  /\ probe.input.event.kind = "PointerEvent"
  /\ probe.input.event.client_x = 11
  /\ probe.input.event.client_y = 5
  /\ probe.input.event.width = 1
  /\ probe.result

\* C23: is_valid_keyboard_event(event, target) is true exactly when every
\* row of the eligibility table holds: the key is "Enter" or " " or the code
\* is "Space"; an input target accepts the key for its type (checkbox and
\* radio only space, other types only when button-like); the target is no
\* textarea and not content-editable; an anchor with href has role "button"
\* and the key is not "Enter" (an anchor without href is not restricted); a
\* target with role "link" gets "Enter".
C23_KeyboardEligibility ==
  probe.fn = "is_valid_keyboard_event" =>
    LET event == probe.input.event
        elem == probe.input.target
        is_input == elem.instance = "HtmlInputElement"
        is_anchor == elem.instance = "HtmlAnchorElement"
        button_like == {"checkbox", "radio", "range", "color", "file",
                        "image", "button", "submit", "reset"}
    IN probe.result <=>
         /\ event.key \in {"Enter", " "} \/ event.code = "Space"
         /\ is_input /\ elem.type \in {"checkbox", "radio"} => event.key = " "
         /\ is_input /\ elem.type \notin {"checkbox", "radio"}
              => elem.type \in button_like
         /\ elem.instance # "HtmlTextAreaElement"
         /\ ~elem.content_editable
         /\ is_anchor /\ elem.href
              => elem.role = "button" /\ event.key # "Enter"
         /\ elem.role = "link" => event.key = "Enter"

\* C24: a callback handed to run_after_transition is invoked exactly once:
\* it is never invoked twice, and once its animation frame has passed it
\* has either been invoked or it waits in the callback list while some
\* element is still transitioning.
C24_CallbackInvokedOnce ==
  \A callback \in CallbackIds :
    /\ transitions.invoked[callback] <= 1
    /\ callback \in transitions.done =>
         \/ transitions.invoked[callback] = 1
         \/ /\ ~MapIsEmpty(transitions.elements)
            /\ \E i \in 1..Len(transitions.callbacks) :
                 transitions.callbacks[i] = callback

IsStartOrEnd(call) == call.event_type \in {"PressStart", "PressEnd"}

\* C25: PressStart and PressEnd emissions strictly alternate, starting with
\* PressStart, and every one of them is followed at once by the press-change
\* call of its value (true after PressStart, false after PressEnd), which is
\* made nowhere else. did_fire_press_start tells, between events, whether
\* the last of them was a PressStart.
C25_StartEndAlternate ==
  /\ ~did_fire_press_start
  /\ [][ IF emitted' = << >>
         THEN did_fire_press_start' = did_fire_press_start
         ELSE LET calls == emitted'
                  edges == TypesOf(SelectSeq(calls, IsStartOrEnd))
              IN /\ \A i \in 1..Len(edges) :
                      edges[i] = IF (i % 2 = 1) = did_fire_press_start
                                 THEN "PressEnd" ELSE "PressStart"
                 /\ did_fire_press_start' =
                      (did_fire_press_start # (Len(edges) % 2 = 1))
                 /\ \A i \in 1..Len(calls) :
                      /\ IsStartOrEnd(calls[i]) =>
                           /\ i < Len(calls)
                           /\ calls[i + 1] =
                                PressChange(calls[i].event_type = "PressStart")
                      /\ calls[i].event_type = "PressChange" =>
                           /\ i > 1
                           /\ IsStartOrEnd(calls[i - 1])
       ]_vars

\* a PressStart that follows an earlier PressEnd
C25_Witness ==
  /\ did_fire_press_start
  /\ ignore_click_after_press
  /\ CountType(emitted, "PressStart") = 1
  /\ CountType(emitted, "PressEnd") = 0

\* C26: Press is emitted only right after the PressEnd and press-change
\* (false) of the same call, for the same pointer kind, and only while the
\* element is not disabled; an event that ends the press off the target
\* (cancel, a move off the target, a release off the target) emits no Press;
\* a release over the target of a press started before the element became
\* disabled emits PressEnd and press-change(false) but no Press.
C26_PressAfterPressEnd ==
  [][ LET calls == emitted'
          release == last' \in {"pointerup:active_over", "keyup:held_inside"}
          off_target == last' \in {"pointerup:active_off", "keyup:held_outside",
                                   "pointermove:exit", "pointermove:exit_cancel",
                                   "cancel:idle", "cancel:pressed", "cancel:over",
                                   "cancel:over_started"}
      IN /\ \A i \in 1..Len(calls) :
              calls[i].event_type = "Press" =>
                /\ i >= 3
                /\ calls[i - 2] = PressEvent(calls[i].arg, "PressEnd")
                /\ calls[i - 1] = PressChange(FALSE)
                /\ ~is_disabled'
         /\ off_target => CountType(calls, "Press") = 0
         /\ release /\ did_fire_press_start /\ is_disabled =>
              /\ CountType(calls, "PressEnd") = 1
              /\ CountType(calls, "Press") = 0
    ]_vars

\* a release over the target, by pointer or key, of a press that started
\* before the element became disabled
C26_Witness ==
  /\ last \in {"pointerup:active_over", "keyup:held_inside"}
  /\ is_disabled
  /\ CountType(emitted, "PressEnd") = 1
  /\ CountType(emitted, "Press") = 0

\* C27: a document pointermove of another pointer than the active one, or
\* one that does not change whether the pointer is over the target, emits
\* no event and leaves the gesture state unchanged; a pointermove emits
\* PressStart only when the pointer enters the target and PressEnd only
\* when it leaves it.
C27_PointerMoveFrame ==
  [][ /\ last' \in {"pointermove:other", "pointermove:stay_over",
                    "pointermove:stay_off"} =>
           /\ emitted' = << >>
           /\ UNCHANGED gesture_state
      /\ last' \in {"pointermove:other", "pointermove:stay_over",
                    "pointermove:stay_off", "pointermove:enter",
                    "pointermove:exit", "pointermove:exit_cancel"} =>
           /\ CountType(emitted', "PressStart") > 0 => last' = "pointermove:enter"
           /\ CountType(emitted', "PressEnd") > 0 =>
                last' \in {"pointermove:exit", "pointermove:exit_cancel"}
    ]_vars

\* C28: active_pointer_id becomes Some(id) only in the step of a pointerdown
\* that starts a gesture, and after the document pointerup (primary
\* button) of the active pointer, over the target or off it, and after a
\* pointercancel during the gesture, no pointer gesture is in progress:
\* active_pointer_id is None and is_over_target is false.
C28_ActivePointerReleased ==
  [][ /\ (active_pointer_id' # {} /\ active_pointer_id' # active_pointer_id) =>
           /\ ~is_pressed
           /\ is_pressed'
      /\ ( /\ active_pointer_id # {}
           /\ last' \in {"pointerup:active_over", "pointerup:active_off",
                          "cancel:idle", "cancel:pressed", "cancel:over",
                          "cancel:over_started"} ) =>
           /\ active_pointer_id' = {}
           /\ ~is_over_target'
    ]_vars

\* the operation of the latest text_selection call, "" when there is none
LatestOp(d) ==
  IF d.recent_calls = << >> THEN "" ELSE d.recent_calls[Len(d.recent_calls)].op

\* C29: on iOS the selection state only moves Default to Disabled, Disabled
\* to Restoring, Restoring to Disabled and Restoring to Default;
\* restore_text_selection changes and schedules nothing unless the state is
\* Disabled, and the delayed callback changes nothing unless the state is
\* still Restoring.
C29_SelectionModeTransitions ==
  [][ sel.ios =>
        LET same == /\ sel'.selection = sel.selection
                    /\ sel'.root_style = sel.root_style
                    /\ sel'.user_select = sel.user_select
        IN /\ \/ sel'.selection = sel.selection
              \/ << sel.selection, sel'.selection >> \in
                   { << "Default", "Disabled" >>, << "Disabled", "Restoring" >>,
                     << "Restoring", "Disabled" >>, << "Restoring", "Default" >> }
           /\ ( /\ sel' # sel
                /\ LatestOp(sel') = "restore"
                /\ sel.selection # "Disabled" )
              => (same /\ sel'.timeouts = sel.timeouts)
           /\ ( /\ sel' # sel
                /\ LatestOp(sel') = "timeout"
                /\ sel.selection # "Restoring" )
              => same
    ]_vars

\* C30: on iOS, whenever the selection state is Disabled the inline
\* -webkit-user-select of the document root is "none".
C30_DisabledMeansNone ==
  (sel.ios /\ sel.selection = "Disabled") => sel.root_style = "none"

\* the members of a sequence
Range(seq) == {seq[i] : i \in 1..Len(seq)}

\* the element of the latest text_selection call
LatestEl(d) ==
  IF d.recent_calls = << >> THEN None ELSE d.recent_calls[Len(d.recent_calls)].el

\* the step from d to e is a call of op with the element
IsCall(d, e, op, el) ==
  /\ e.recent_calls # d.recent_calls
  /\ LatestOp(e) = op
  /\ LatestEl(e) = el

\* the values the list holds for the element
ValuesOf(list, el) == {list[i].value : i \in EntriesOf(list, el)}

\* C31: generic strategy: after disable_text_selection of an HTML element
\* that had no entry in the element list, the element's inline user-select
\* is "none" and the list holds for it the value it had before the call.
C31_SuppressWritesNone ==
  [][ \A el \in {"a", "b"} :
        ( /\ ~sel.ios
          /\ IsCall(sel, sel', "disable", el)
          /\ EntriesOf(sel.element_list, el) = {} )
        => /\ sel'.style[el] = "none"
           /\ ValuesOf(sel'.element_list, el) = {sel.style[el]}
    ]_vars

\* C32: generic strategy: restore_text_selection applied to the state a
\* disable_text_selection of an HTML or SVG element has just left gives the
\* element the inline user-select it had before the disable, with a style
\* attribute only when that value is not empty, and no entry in the list;
\* restore_text_selection of an element without entry changes no style, no
\* style attribute and not the list.
C32_SuppressRestoreRoundTrip ==
  [][ \A el \in {"a", "b", "svg"} :
        /\ ( /\ ~sel.ios
             /\ IsCall(sel, sel', "disable", el) )
           => LET after == restore_text_selection(sel', el)
              IN /\ after.style[el] = sel.style[el]
                 /\ after.style_attribute[el] =
                      IF EntriesOf(sel'.element_list, el) = {}
                      THEN sel.style_attribute[el]
                      ELSE sel.style[el] # ""
                 /\ EntriesOf(after.element_list, el) = {}
        /\ ( /\ ~sel.ios
             /\ IsCall(sel, sel', "restore", el)
             /\ EntriesOf(sel.element_list, el) = {} )
           => /\ sel'.style = sel.style
              /\ sel'.style_attribute = sel.style_attribute
              /\ sel'.element_list = sel.element_list
    ]_vars

\* disable then restore of an element whose style attribute held nothing:
\* the attribute is gone, the value and the list are as before
C32_Witness ==
  /\ ~sel.ios
  /\ OpsOf(sel) = << "disable", "restore" >>
  /\ sel.recent_calls[1].el = "a"
  /\ sel.recent_calls[2].el = "a"
  /\ sel.original["a"] = ""
  /\ sel.style["a"] = ""
  /\ ~sel.style_attribute["a"]
  /\ sel.element_list = << >>

\* C33: generic strategy: disable_text_selection and restore_text_selection
\* take the same elements, those of HTML or SVG type: a call of either
\* without element or with an element of another type changes no style and
\* not the list, and disable_text_selection of an SVG element gives it an
\* entry in the list, which restore_text_selection removes.
C33_SameInputs ==
  [][ ~sel.ios =>
        /\ \A op \in {"disable", "restore"}, el \in {None, "math"} :
             IsCall(sel, sel', op, el) =>
               /\ sel'.style = sel.style
               /\ sel'.element_list = sel.element_list
        /\ IsCall(sel, sel', "disable", "svg") =>
             EntriesOf(sel'.element_list, "svg") # {}
        /\ IsCall(sel, sel', "restore", "svg") =>
             EntriesOf(sel'.element_list, "svg") = {}
    ]_vars

\* C34: generic strategy with two HTML elements: restore_text_selection of
\* one changes neither the entry nor the style of the other and leaves the
\* restored element without entry, and an element without entry has the
\* inline user-select it had at the start; so when every disable has been
\* followed by its restore, both have their first values and the list is
\* empty.
C34_TwoElements ==
  /\ [](~sel.ios =>
          \A el \in {"a", "b"} :
            EntriesOf(sel.element_list, el) = {} => sel.style[el] = sel.original[el])
  /\ [][ \A el \in {"a", "b"}, other \in {"a", "b"} :
           ( /\ ~sel.ios
             /\ el # other
             /\ IsCall(sel, sel', "restore", el) )
           => /\ ValuesOf(sel'.element_list, other) = ValuesOf(sel.element_list, other)
              /\ Cardinality(EntriesOf(sel'.element_list, other)) =
                   Cardinality(EntriesOf(sel.element_list, other))
              /\ sel'.style[other] = sel.style[other]
              /\ EntriesOf(sel'.element_list, el) = {}
       ]_vars

\* a has been restored while b, disabled before, still has its entry
C34_Witness ==
  /\ ~sel.ios
  /\ sel.recent_calls = << Call("disable", "b"), Call("restore", "a") >>
  /\ EntriesOf(sel.element_list, "b") # {}
  /\ EntriesOf(sel.element_list, "a") = {}
  /\ sel.style["a"] = sel.original["a"]

\* C35: a gesture whose pointerdown is followed at once by the document
\* pointerup of its pointer: the pointerup requests the restoration of text
\* selection iff the pointerdown requested its suppression, and both go by
\* allow_text_selection_on_press being false.
C35_SuppressAndRestorePaired ==
  [][ ( /\ Len(hist) = 1
        /\ hist # Off
        /\ is_pressed
        /\ last' \in {"pointerup:active_over", "pointerup:active_off"} )
      => /\ ("restore_text_selection" \in Range(selection_calls'))
              <=> ("disable_text_selection" \in Range(selection_calls))
         /\ ("restore_text_selection" \in Range(selection_calls'))
              <=> ~allow_text_selection_on_press
    ]_vars

\* C36: a document keyup that ends a started press of an enabled element,
\* released inside it: the event emits PressEnd and then Press, once each,
\* after at most the PressUp of the element's own keyup handler, and no
\* PressStart; on an HTML element with link role a click is then synthesized
\* and consumed by on_click without a further callback (the click guard is
\* clear again afterwards), on an element without link role no click is
\* synthesized (the click guard stays set).
C36_LinkActivationPressesOnce ==
  [][ (last' = "keyup:held_inside" /\ ~is_disabled)
      => /\ TypesOf(PressEventsOf(emitted'))
              \in { << "PressEnd", "Press" >>, << "PressUp", "PressEnd", "Press" >> }
         /\ (IsHtmlElement(element) /\ has_link_role(element))
              => ~ignore_click_after_press'
         /\ ~has_link_role(element) => ignore_click_after_press'
    ]_vars

C36_Witness ==
  /\ last = "keyup:held_inside"
  /\ ~is_disabled
  /\ IsHtmlElement(element)
  /\ has_link_role(element)
  /\ CountType(emitted, "Press") = 1
  /\ ~ignore_click_after_press

\* C37: a dragstart inside the element, or a pointercancel, that invokes
\* cancel while a press is in progress (PressStart was emitted and is still
\* owed its PressEnd) emits PressEnd and no Press and leaves no press
\* started; cancel invoked with no gesture in progress changes nothing.
C37_DragStartCancels ==
  [][ /\ ( /\ last' \in {"cancel:pressed", "cancel:over", "cancel:over_started"}
           /\ did_fire_press_start )
         => /\ TypesOf(PressEventsOf(emitted')) = << "PressEnd" >>
            /\ ~did_fire_press_start'
      /\ last' = "cancel:idle"
         => /\ emitted' = << >>
            /\ UNCHANGED gesture_state
    ]_vars

\* the gesture state held by a handler's record
GestureOf(s) ==
  << s.is_pressed, s.did_fire_press_start, s.ignore_click_after_press,
     s.ignore_emulated_mouse_events, s.active_pointer_id, s.target,
     s.is_over_target, s.pointer_type, s.listeners >>

\* C38: in every reachable state the element-scoped pointerup, keyup and
\* mousedown handlers leave the gesture state as it is, whatever the event;
\* the element-scoped pointerup calls PressUp, and nothing else, iff its
\* target is inside the element, the recorded pointer kind is not Virtual,
\* the button is primary, the release overlaps the element and the element
\* is not disabled, and calls nothing otherwise.
C38_ElementHandlersFrame ==
  /\ \A event \in PointerUpEvents :
        LET s == on_pointer_up(Cur, event)
        IN /\ GestureOf(s) = GestureOf(Cur)
           /\ TypesOf(s.emitted) =
                IF /\ event.inside
                   /\ pointer_type # "Virtual"
                   /\ event.button = 0
                   /\ is_above_target(event)
                   /\ ~is_disabled
                THEN << "PressUp" >>
                ELSE << >>
  /\ \A event \in KeyboardEvents :
        GestureOf(on_key_up(Cur, event)) = GestureOf(Cur)
  /\ \A event \in MouseEvents :
        GestureOf(on_mouse_down(Cur, event)) = GestureOf(Cur)

\* an element-scoped pointerup has called PressUp on an element no press
\* ever started on
C38_Witness ==
  /\ emitted = << PressEvent("Mouse", "PressUp") >>
  /\ target = None
  /\ ~is_pressed
  /\ ~did_fire_press_start

\* C39: in every reachable state did_fire_press_start implies is_pressed:
\* once a gesture has terminated and is_pressed is false, no PressStart is
\* left without its PressEnd.
C39_StartedImpliesPressed ==
  did_fire_press_start => is_pressed

\* C40: the press events called during one recorded pointer gesture (its
\* pointerdown, then pointermoves and pointerups of the same pointer) all
\* carry one pointer kind, the kind of the pointerdown that started it.
C40_OneKindPerGesture ==
  \A i, j \in 1..Len(glog) :
    (IsPressEvent(glog[i]) /\ IsPressEvent(glog[j]))
      => glog[i].arg = glog[j].arg

====
